---- MODULE Spec2Model ----
(***************************************************************************)
(* Model of src/reader.c: the git_reader abstraction and its three         *)
(* backends (tree, workdir, index), the constructors, the dispatcher       *)
(* git_reader_read and git_reader_free.                                    *)
(*                                                                         *)
(* A read is synchronous and runs to completion inside the call, so each   *)
(* call is one action.  What the call did (collaborator calls made, bytes  *)
(* written, handles released) is recorded in `call`.                       *)
(***************************************************************************)
EXTENDS Integers, Sequences, FiniteSets

VARIABLES tree, index, borrowed, heap, reader, call

vars == <<tree, index, borrowed, heap, reader, call>>

----------------------------------------------------------------------------
(* Bounds *)

MaxLen == 2          \* longest working file, in bytes
MaxReaders == 2      \* readers allocated in one run

----------------------------------------------------------------------------
(* Collaborators consumed through their narrow contracts *)

Paths == {"a.txt", "b.txt"}

Byte == {"CR", "LF"}

RECURSIVE SeqsUpTo(_)
SeqsUpTo(n) ==
    IF n = 0 THEN {<<>>}
    ELSE LET shorter == SeqsUpTo(n - 1)
         IN shorter \cup {Append(s, b) : s \in {t \in shorter : Len(t) = n - 1}, b \in Byte}

Bytes == SeqsUpTo(MaxLen)

Code(b) == IF b = "CR" THEN 1 ELSE 2

\* content hashing: hash(bytes) -> ContentId, collision free
RECURSIVE git_odb_hash(_)
git_odb_hash(b) ==
    IF b = <<>> THEN 1 ELSE 3 * git_odb_hash(SubSeq(b, 1, Len(b) - 1)) + Code(b[Len(b)])

\* blobs held by the object store, addressed by their content identity
StoredBlobs == {<<"LF">>, <<"CR", "LF">>}

EntryIds == {git_odb_hash(b) : b \in StoredBlobs}

git_blob_rawcontent(id) == CHOOSE b \in StoredBlobs : git_odb_hash(b) = id

\* the to-storage filter pipeline: line-ending normalisation
RECURSIVE CrlfToLf(_)
CrlfToLf(b) ==
    IF b = <<>> THEN <<>>
    ELSE IF Len(b) >= 2 /\ b[1] = "CR" /\ b[2] = "LF"
         THEN <<"LF">> \o CrlfToLf(SubSeq(b, 3, Len(b)))
         ELSE <<b[1]>> \o CrlfToLf(Tail(b))

FilterKinds == {"none", "crlf"}

git_filter_list_apply(flt, raw) == IF flt = "crlf" THEN CrlfToLf(raw) ELSE raw

\* a tree or a staging table: a partial map from paths to content identities
Snapshots == UNION {[D -> EntryIds] : D \in SUBSET Paths}

IndexNames == {"default", "supplied"}

\* what the caller's buffer and identity output hold before a call
PriorBufs == {<<>>, <<"CR">>}
PriorId == git_odb_hash(<<"CR">>)

IsErr(e) == e # "OK"

----------------------------------------------------------------------------
(* The record of one call *)

NoEnv ==
    [odb |-> TRUE, oom |-> FALSE, garbageNull |-> TRUE,
     join |-> TRUE, load |-> TRUE, flt |-> "none", exists |-> TRUE,
     raw |-> <<>>, apply |-> TRUE, hash |-> TRUE]

NoCall ==
    [op |-> "none", kind |-> "null", bound |-> "none",
     filename |-> "a.txt", wantId |-> FALSE,
     out0 |-> <<>>, env |-> NoEnv,
     ret |-> "OK", out |-> <<>>, outId |-> PriorId,
     outWrites |-> 0, idWrites |-> 0,
     treeLookups |-> 0, indexLookups |-> 0, blobLookups |-> 0,
     fileReads |-> 0, hashCalls |-> 0,
     hashed |-> {}, cmpId |-> {}, cpyId |-> {},
     acquired |-> {}, releases |-> <<>>, fault |-> FALSE]

Begin(rd, filename, wantId, out0, env) ==
    [NoCall EXCEPT !.op = "read", !.kind = rd.kind, !.bound = rd.index,
                   !.filename = filename, !.wantId = wantId,
                   !.out0 = out0, !.out = out0, !.env = env]

Release(c, res, handle) == [c EXCEPT !.releases = Append(@, <<res, handle>>)]

----------------------------------------------------------------------------
(* tree reader *)

tree_reader_done(c, blob, tree_entry) ==
    Release(Release(c, "blob", blob), "tree_entry", tree_entry)

\* git_buf_clear(out); git_buf_put(out, rawcontent, rawsize): a failed put
\* leaves the buffer without content
tree_reader_fill_noclear(out0, content, oom) ==
    IF oom THEN <<>> ELSE out0 \o content

tree_reader_fill(out0, content, oom) ==
    IF oom THEN <<>> ELSE content

tree_reader_read(t, rd, filename, wantId, out0, env) ==
    LET c0 == Begin(rd, filename, wantId, out0, env)
        c1 == [c0 EXCEPT !.treeLookups = 1]
    IN  IF filename \notin DOMAIN t
        THEN tree_reader_done([c1 EXCEPT !.ret = "ENOTFOUND"], "null", "null")
        ELSE
        LET c2 == [c1 EXCEPT !.acquired = @ \cup {"tree_entry"}, !.blobLookups = 1]
        IN  IF ~env.odb
            THEN tree_reader_done([c2 EXCEPT !.ret = "ERROR"], "null", "acquired")
            ELSE
            LET c3 == [c2 EXCEPT !.acquired = @ \cup {"blob"}]
                \* git_buf_clear; git_buf_put; git_buf_oom
                c4 == [c3 EXCEPT !.outWrites = 2,
                                 !.out = tree_reader_fill(out0, git_blob_rawcontent(t[filename]), env.oom),
                                 !.ret = IF env.oom THEN "ERROR" ELSE "OK"]
                c5 == IF wantId
                      THEN [c4 EXCEPT !.outId = t[filename], !.idWrites = 1]
                      ELSE c4
            IN  tree_reader_done(c5, "acquired", "acquired")

tree_reader_free(rd, b) == b

git_reader_for_tree(h, treeArg, allocOk) ==
    IF ~allocOk
    THEN [ret |-> "ERROR", heap |-> h, out |-> {}]
    ELSE [ret |-> "OK", heap |-> Append(h, 0),
          out |-> {[kind |-> "tree", addr |-> Len(h) + 1, index |-> "none"]}]

----------------------------------------------------------------------------
(* workdir reader *)

workdir_reader_done(c, filters, path) ==
    Release(Release(c, "filters", filters), "path", path)

\* if (out_id || reader->index): the identity is needed
workdir_needs_hash_always(wantId, rd) == TRUE

workdir_needs_hash_requested(wantId, rd) == wantId

workdir_needs_hash(wantId, rd) == wantId \/ rd.index # "none"

\* if (reader->index): the staging entry must exist and carry the identity
workdir_reader_verify_notfound(ix, rd, filename, id) ==
    IF filename \notin DOMAIN ix[rd.index] THEN "ENOTFOUND"
    ELSE IF id.val # ix[rd.index][filename] THEN "MISMATCH"
    ELSE "OK"

workdir_reader_verify_present(ix, rd, filename, id) ==
    IF filename \notin DOMAIN ix[rd.index] THEN "MISMATCH"
    ELSE "OK"

workdir_reader_verify(ix, rd, filename, id) ==
    IF filename \notin DOMAIN ix[rd.index] THEN "MISMATCH"
    ELSE IF id.val # ix[rd.index][filename] THEN "MISMATCH"
    ELSE "OK"

workdir_reader_read(ix, rd, filename, wantId, out0, env) ==
    LET c0 == Begin(rd, filename, wantId, out0, env)
        \* local git_oid id: not initialised
        id0 == [init |-> FALSE, val |-> PriorId]
    IN  IF ~env.join
        THEN workdir_reader_done([c0 EXCEPT !.ret = "ERROR"], "null", "null")
        ELSE
        LET c1 == [c0 EXCEPT !.acquired = @ \cup {"path"}]
        IN  IF ~env.load
            THEN workdir_reader_done([c1 EXCEPT !.ret = "ERROR"], "null", "acquired")
            ELSE
            LET filters == IF env.flt = "none" THEN "null" ELSE "acquired"
                c2 == [c1 EXCEPT !.acquired = IF filters = "acquired" THEN @ \cup {"filters"} ELSE @,
                                 !.fileReads = 1, !.outWrites = 1]
            IN  IF ~env.exists \/ ~env.apply
                THEN workdir_reader_done(
                         [c2 EXCEPT !.out = <<>>,
                                    !.ret = IF ~env.exists THEN "ENOTFOUND" ELSE "ERROR"],
                         filters, "acquired")
                ELSE
                LET c3 == [c2 EXCEPT !.out = git_filter_list_apply(env.flt, env.raw)]
                    doHash == workdir_needs_hash(wantId, rd)
                    verify == rd.index # "none"
                IN  IF doHash /\ ~env.hash
                    THEN workdir_reader_done(
                             [c3 EXCEPT !.hashCalls = 1, !.hashed = {c3.out}, !.ret = "ERROR"],
                             filters, "acquired")
                    ELSE
                    LET id == IF doHash
                              THEN [init |-> TRUE, val |-> git_odb_hash(c3.out)]
                              ELSE id0
                        c4 == IF doHash
                              THEN [c3 EXCEPT !.hashCalls = 1, !.hashed = {c3.out}]
                              ELSE c3
                        checked == IF verify
                                   THEN workdir_reader_verify(ix, rd, filename, id)
                                   ELSE "OK"
                    IN  IF IsErr(checked)
                        THEN workdir_reader_done(
                                 [c4 EXCEPT !.indexLookups = 1,
                                            !.cmpId = IF filename \in DOMAIN ix[rd.index]
                                                      THEN {id} ELSE {},
                                            !.ret = checked],
                                 filters, "acquired")
                        ELSE
                        LET c5 == IF verify
                                  THEN [c4 EXCEPT !.indexLookups = 1, !.cmpId = {id}]
                                  ELSE c4
                            c6 == IF wantId
                                  THEN [c5 EXCEPT !.outId = id.val, !.idWrites = 1,
                                                  !.cpyId = {id}]
                                  ELSE c5
                        IN  workdir_reader_done(c6, filters, "acquired")

workdir_reader_free(rd, b) == b

git_reader_for_workdir(h, validate_index, allocOk, weakptrOk) ==
    IF ~allocOk
    THEN [ret |-> "ERROR", heap |-> h, out |-> {}]
    ELSE IF validate_index /\ ~weakptrOk
         THEN [ret |-> "ERROR", heap |-> Append(h, 1), out |-> {}]
         ELSE [ret |-> "OK", heap |-> Append(h, 0),
               out |-> {[kind |-> "workdir", addr |-> Len(h) + 1,
                         index |-> IF validate_index THEN "default" ELSE "none"]}]

----------------------------------------------------------------------------
(* index reader *)

\* reader->index: the staging table bound at construction
reader_index_default(ix, rd) == ix["default"]

reader_index(ix, rd) == ix[rd.index]

\* return GIT_ENOTFOUND: nothing was acquired, nothing is released
index_reader_missing_error(c) == [c EXCEPT !.ret = "ERROR"]

index_reader_missing(c) == [c EXCEPT !.ret = "ENOTFOUND"]

index_reader_read(ix, rd, filename, wantId, out0, env) ==
    LET c0 == Begin(rd, filename, wantId, out0, env)
        c1 == [c0 EXCEPT !.indexLookups = 1]
    IN  IF filename \notin DOMAIN reader_index(ix, rd)
        THEN index_reader_missing(c1)
        ELSE
        LET entry == reader_index(ix, rd)[filename]
            c2 == [c1 EXCEPT !.blobLookups = 1]
        IN  IF ~env.odb
            \* local git_blob *blob was never assigned: git_blob_free gets
            \* whatever the stack held, a null or a wild pointer
            THEN Release([c2 EXCEPT !.ret = "ERROR", !.fault = ~env.garbageNull],
                         "blob", "uninit")
            ELSE
            LET c3 == [c2 EXCEPT !.acquired = @ \cup {"blob"}]
                c4 == IF wantId
                      THEN [c3 EXCEPT !.outId = entry, !.idWrites = 1]
                      ELSE c3
                \* git_blob__getbuf
                c5 == [c4 EXCEPT !.outWrites = 1,
                                 !.out = IF env.oom THEN <<>> ELSE git_blob_rawcontent(entry),
                                 !.ret = IF env.oom THEN "ERROR" ELSE "OK"]
            IN  Release(c5, "blob", "acquired")

index_reader_free_index(rd, b) == [b EXCEPT !["index_" \o rd.index] = "released"]

index_reader_free(rd, b) == b

git_reader_for_index(h, indexArg, allocOk, weakptrOk) ==
    IF ~allocOk
    THEN [ret |-> "ERROR", heap |-> h, out |-> {}]
    ELSE IF indexArg # "null"
         THEN [ret |-> "OK", heap |-> Append(h, 0),
               out |-> {[kind |-> "index", addr |-> Len(h) + 1, index |-> indexArg]}]
         ELSE IF ~weakptrOk
              THEN [ret |-> "ERROR", heap |-> Append(h, 1), out |-> {}]
              ELSE [ret |-> "OK", heap |-> Append(h, 0),
                    out |-> {[kind |-> "index", addr |-> Len(h) + 1, index |-> "default"]}]

----------------------------------------------------------------------------
(* generic *)

git_reader_read(t, ix, rd, filename, wantId, out0, env) ==
    CASE rd.kind = "tree" -> tree_reader_read(t, rd, filename, wantId, out0, env)
      [] rd.kind = "workdir" -> workdir_reader_read(ix, rd, filename, wantId, out0, env)
      [] rd.kind = "index" -> index_reader_read(ix, rd, filename, wantId, out0, env)

\* reader->free(reader): the variant's teardown, applied to the borrowed objects
reader_free_variant(rd, b) ==
    CASE rd.kind = "tree" -> tree_reader_free(rd, b)
      [] rd.kind = "workdir" -> workdir_reader_free(rd, b)
      [] rd.kind = "index" -> index_reader_free(rd, b)

\* result: the borrowed objects and the heap after the call
git_reader_free(rds, b, h) ==
    IF rds = {}
    THEN [borrowed |-> b, heap |-> h]
    ELSE LET rd == CHOOSE r \in rds : TRUE
         IN  [borrowed |-> reader_free_variant(rd, b),
              heap |-> [h EXCEPT ![rd.addr] = @ + 1]]

----------------------------------------------------------------------------
(* State machine: one client holding at most one reader handle.  `reader`  *)
(* is the client's handle: the empty set is NULL.                          *)

Objects == {"tree", "repo", "index_default", "index_supplied"}

Init ==
    /\ tree \in Snapshots
    /\ index \in [IndexNames -> Snapshots]
    /\ borrowed = [o \in Objects |-> "live"]
    /\ heap = <<>>
    /\ reader = {}
    /\ call = NoCall

\* no call is outstanding: the client has taken the result of the last one
Idle == call.op = "none"

Constructed(kind, r) ==
    /\ heap' = r.heap
    /\ reader' = r.out
    /\ call' = [NoCall EXCEPT !.op = "construct", !.kind = kind, !.ret = r.ret,
                              !.bound = IF r.out = {} THEN "none"
                                        ELSE (CHOOSE x \in r.out : TRUE).index]
    /\ UNCHANGED <<tree, index, borrowed>>

ForTree ==
    /\ Idle /\ reader = {} /\ Len(heap) < MaxReaders
    /\ \E allocOk \in BOOLEAN :
          Constructed("tree", git_reader_for_tree(heap, "tree", allocOk))

ForWorkdir ==
    /\ Idle /\ reader = {} /\ Len(heap) < MaxReaders
    /\ \E validate_index \in BOOLEAN, allocOk \in BOOLEAN, weakptrOk \in BOOLEAN :
          Constructed("workdir",
                      git_reader_for_workdir(heap, validate_index, allocOk, weakptrOk))

ForIndex ==
    /\ Idle /\ reader = {} /\ Len(heap) < MaxReaders
    /\ \E indexArg \in {"null", "supplied"}, allocOk \in BOOLEAN, weakptrOk \in BOOLEAN :
          Constructed("index", git_reader_for_index(heap, indexArg, allocOk, weakptrOk))

\* outcomes of the object store and of buffer growth seen by one call
BlobEnvs ==
    {[NoEnv EXCEPT !.odb = o, !.oom = m, !.garbageNull = g] :
        o \in BOOLEAN, m \in BOOLEAN, g \in BOOLEAN}

TreeEnvs == {e \in BlobEnvs : e.garbageNull /\ (~e.odb => ~e.oom)}

IndexEnvs == {e \in BlobEnvs : (~e.odb => ~e.oom) /\ (e.odb => e.garbageNull)}

\* outcomes of path join, filter load, the file on disk, filtering and hashing
WorkdirEnvs ==
    {[NoEnv EXCEPT !.join = FALSE], [NoEnv EXCEPT !.load = FALSE],
     [NoEnv EXCEPT !.exists = FALSE], [NoEnv EXCEPT !.apply = FALSE]}
    \cup {[NoEnv EXCEPT !.flt = f, !.raw = r, !.hash = k] :
            f \in FilterKinds, r \in Bytes, k \in BOOLEAN}

DoRead(envs) ==
    /\ Idle
    /\ \E rd \in reader, filename \in Paths, wantId \in BOOLEAN,
          out0 \in PriorBufs, env \in envs :
          call' = git_reader_read(tree, index, rd, filename, wantId, out0, env)
    /\ UNCHANGED <<tree, index, borrowed, heap, reader>>

ReadTree == (\E rd \in reader : rd.kind = "tree") /\ DoRead(TreeEnvs)

ReadWorkdir == (\E rd \in reader : rd.kind = "workdir") /\ DoRead(WorkdirEnvs)

ReadIndex == (\E rd \in reader : rd.kind = "index") /\ DoRead(IndexEnvs)

Free ==
    /\ Idle
    /\ LET r == git_reader_free(reader, borrowed, heap)
       IN  /\ borrowed' = r.borrowed
           /\ heap' = r.heap
    /\ reader' = {}
    /\ call' = [NoCall EXCEPT !.op = "free",
                              !.kind = IF reader = {} THEN "null"
                                       ELSE (CHOOSE x \in reader : TRUE).kind]
    /\ UNCHANGED <<tree, index>>

\* the call has returned and control is back with the client
Return ==
    /\ ~Idle
    /\ call' = NoCall
    /\ UNCHANGED <<tree, index, borrowed, heap, reader>>

Next ==
    \/ ForTree
    \/ ForWorkdir
    \/ ForIndex
    \/ ReadTree
    \/ ReadWorkdir
    \/ ReadIndex
    \/ Free
    \/ Return

Spec == Init /\ [][Next]_vars

----------------------------------------------------------------------------
(* Properties *)

IsRead(k) == call.op = "read" /\ call.kind = k

\* the working file was joined, loaded, found and filtered in this call
FileFiltered ==
    call.env.join /\ call.env.load /\ call.env.exists /\ call.env.apply

Filtered == git_filter_list_apply(call.env.flt, call.env.raw)

Staged == index[call.bound]

\* C1: a tree read of a path the tree holds, with the object store lookup and
\* the buffer write succeeding, returns success with exactly the blob's raw
\* bytes in the buffer and, when asked, the tree entry's identity.
C1_TreeReadReturnsBlob ==
    (IsRead("tree") /\ call.filename \in DOMAIN tree /\ call.env.odb /\ ~call.env.oom)
    => /\ call.ret = "OK"
       /\ call.out = git_blob_rawcontent(tree[call.filename])
       /\ call.wantId => call.outId = tree[call.filename]

C1_Witness ==
    /\ IsRead("tree") /\ call.ret = "OK" /\ call.wantId
    /\ call.out0 # <<>> /\ call.out = <<"CR", "LF">>
    /\ call.outId = tree[call.filename] /\ call.outId # PriorId

\* C2: an index read of a path with a staging entry, with the object store
\* lookup and the buffer fill succeeding, returns success with the bytes of
\* the blob the entry names and, when asked, the entry's identity, for the
\* caller's index and for the repository's default index alike.
C2_IndexReadReturnsBlob ==
    (IsRead("index") /\ call.filename \in DOMAIN Staged /\ call.env.odb /\ ~call.env.oom)
    => /\ call.bound \in IndexNames
       /\ call.ret = "OK"
       /\ call.out = git_blob_rawcontent(Staged[call.filename])
       /\ call.wantId => call.outId = Staged[call.filename]

C2_Witness ==
    /\ IsRead("index") /\ call.bound = "supplied" /\ call.ret = "OK" /\ call.wantId
    /\ call.filename \in DOMAIN index["default"]
    /\ index["default"][call.filename] # index["supplied"][call.filename]
    /\ call.out = git_blob_rawcontent(index["supplied"][call.filename])
    /\ call.out0 # <<>>

\* C3: a tree read or an index read of a path without an entry fails with
\* NotFound, looks up no blob and writes neither the buffer nor the identity.
C3_MissingEntryNotFound ==
    /\ (IsRead("tree") /\ call.filename \notin DOMAIN tree)
       => /\ call.ret = "ENOTFOUND" /\ call.blobLookups = 0
          /\ call.outWrites = 0 /\ call.out = call.out0
          /\ call.idWrites = 0 /\ call.outId = PriorId
    /\ (IsRead("index") /\ call.filename \notin DOMAIN Staged)
       => /\ call.ret = "ENOTFOUND" /\ call.blobLookups = 0
          /\ call.outWrites = 0 /\ call.out = call.out0
          /\ call.idWrites = 0 /\ call.outId = PriorId

C3_Witness ==
    /\ IsRead("index") /\ call.filename \notin DOMAIN Staged
    /\ call.wantId /\ call.out0 # <<>> /\ call.ret = "ENOTFOUND"
    /\ call.filename \in DOMAIN tree

\* C4: a validating workdir read whose file was read, filtered and hashed
\* fails with Mismatch when the hash differs from the staging entry's
\* identity, and otherwise succeeds with the filtered bytes and, when asked,
\* an identity equal to the staged one.
C4_ValidateAgainstStaging ==
    (IsRead("workdir") /\ call.bound # "none" /\ FileFiltered /\ call.env.hash
        /\ call.filename \in DOMAIN Staged)
    => IF git_odb_hash(Filtered) # Staged[call.filename]
       THEN call.ret = "MISMATCH"
       ELSE /\ call.ret = "OK"
            /\ call.out = Filtered
            /\ call.wantId => call.outId = Staged[call.filename]

C4_Witness ==
    /\ IsRead("workdir") /\ call.bound = "default" /\ call.ret = "OK" /\ call.wantId
    /\ call.env.flt = "crlf" /\ call.env.raw = <<"CR", "LF">>
    /\ call.out = <<"LF">> /\ call.outId = Staged[call.filename]

C6_NoValidateSucceeds ==
    (IsRead("workdir") /\ call.bound = "none" /\ FileFiltered)
    => /\ call.ret = "OK"
       /\ call.out = Filtered
       /\ call.indexLookups = 0

\* C6, amended: the same, provided that hashing succeeds when the caller
\* asked for the identity.
C6_NoValidateSucceedsIfHashed ==
    (IsRead("workdir") /\ call.bound = "none" /\ FileFiltered
        /\ (call.wantId => call.env.hash))
    => /\ call.ret = "OK"
       /\ call.out = Filtered
       /\ call.indexLookups = 0

C6_Witness ==
    /\ IsRead("workdir") /\ call.bound = "none" /\ call.ret = "OK" /\ ~call.wantId
    /\ ~call.env.hash
    /\ call.filename \in DOMAIN index["default"]
    /\ index["default"][call.filename] # git_odb_hash(call.out)
    /\ call.out = <<"CR", "LF">>

\* C7: whenever a read returns an error, the buffer holds no content written
\* by that call: it is empty, or the call never wrote to it.
C7_NoContentOnError ==
    (call.op = "read" /\ IsErr(call.ret))
    => (call.out = <<>> \/ call.outWrites = 0)

\* C8: freeing NULL does nothing; freeing a reader releases its own storage,
\* once; a constructor's failure path releases only the storage it allocated;
\* no step releases or changes the tree, the repository or a staging table.
C8_FreeStep == call.op = "none" /\ call'.op = "free"

C8_OnlyOwnStorageReleased ==
    [][/\ tree' = tree /\ index' = index /\ borrowed' = borrowed
       /\ \A o \in Objects : borrowed'[o] = "live"
       /\ \A a \in DOMAIN heap' : heap'[a] <= 1
       /\ \A a \in DOMAIN heap : heap'[a] >= heap[a]
       /\ (C8_FreeStep /\ reader = {}) => heap' = heap
       /\ (C8_FreeStep /\ reader # {})
            => \E rd \in reader :
                  /\ heap[rd.addr] = 0
                  /\ heap' = [heap EXCEPT ![rd.addr] = 1]
       /\ ~C8_FreeStep
            => \A a \in DOMAIN heap : heap'[a] = heap[a]]_vars

C8_Witness ==
    /\ call.op = "free" /\ call.kind = "index"
    /\ heap = <<1, 1>> /\ reader = {}
    /\ \A o \in Objects : borrowed[o] = "live"

\* C9: in every read each per-call resource that was acquired is released
\* exactly once before the return, and no release is applied to a handle that
\* was not acquired or not initialised in that call.
Released(res) ==
    Cardinality({i \in DOMAIN call.releases : call.releases[i] = <<res, "acquired">>})

C9_ReleasedExactlyOnce ==
    call.op = "read"
    => /\ \A res \in call.acquired : Released(res) = 1
       /\ \A i \in DOMAIN call.releases :
             /\ call.releases[i][2] # "uninit"
             /\ call.releases[i][2] = "acquired" => call.releases[i][1] \in call.acquired
       /\ ~call.fault

====
